---- MODULE Spec2Model ----
(***************************************************************************)
(* Model of the two shared services of the workbench:                      *)
(*   - the view-frame factory (services/view-frame-provider.js): the       *)
(*     breadcrumb stack, the loader progress machine and its reset timer;  *)
(*   - the REST provider/factory: the configuration store and configure(). *)
(* JavaScript strings that the code computes (concatenation, rendering,    *)
(* encoding) are sequences of one-character strings; strings the code only *)
(* stores and compares (redirects, display texts) are atomic.              *)
(***************************************************************************)
EXTENDS Integers, Sequences, FiniteSets, TLC

VARIABLES
    \* frameState / cacheMap of view-frame-provider.js
    loaderWidth, loaderStep, loaderUnit, loaderTimeout,
    breadcrumbs, routeNext,
    actionButtons, frameTitle, sessionTheme, serverHost,
    \* own properties of frameState beyond those of its literal
    frameExtra,
    \* the identity of the arrays frameState.breadcrumbs and
    \* frameState.actionButtons refer to
    breadcrumbsRef, actionButtonsRef,
    \* history: the references a caller obtained from getBreadcrumbs,
    \* getActions and getState
    held,
    \* the runtime's queue of pending setTimeout timers (their handles)
    timers,
    \* REST_CONFIG, and its own properties beyond those of its literal
    host, authorization, accept, contentType, restExtra,
    \* the options of the REST client call just made and the descriptor it
    \* handed to the transport (Undefined when the operation built none)
    options, request,
    \* the calls the transport was handed and has not completed, oldest first
    inFlight,
    \* the last operation called, what it returned, whether it threw
    op, result, raised,
    \* history: the progress cycle opened by the last accepted setLoaderSteps,
    \* the number of steps it declared and the incrementLoader calls made in it
    cycle, declared, increments

loaderVars == <<loaderWidth, loaderStep, loaderUnit, loaderTimeout, timers, cycle,
                declared, increments>>
crumbVars  == <<breadcrumbs, routeNext>>
viewVars   == <<actionButtons, frameTitle, sessionTheme, serverHost, frameExtra,
                breadcrumbsRef, actionButtonsRef, held>>
restVars   == <<host, authorization, accept, contentType, restExtra, options,
                request, inFlight>>
callVars   == <<op, result, raised>>
vars       == <<loaderVars, crumbVars, viewVars, restVars, callVars>>

-----------------------------------------------------------------------------
(* Bounds of the model *)

\* setLoaderSteps is called with -1, 0 and 1..MaxSteps
MaxSteps == 4
\* breadcrumb stacks of up to MaxCrumbs entries
MaxCrumbs == 3
\* host names of up to MaxHostLen characters
MaxHostLen == 2
\* action-button lists of up to MaxActions descriptors
MaxActions == 2
\* a progress cycle declares up to MaxCycleSteps steps
MaxCycleSteps == 12
\* up to MaxInFlight transport calls await completion
MaxInFlight == 2

-----------------------------------------------------------------------------
(* JavaScript values *)

Undefined == [t |-> "undefined"]
Null      == [t |-> "null"]
Str(s)    == [t |-> "string", v |-> s]
Num(n)    == [t |-> "number", v |-> n]
Obj(m)    == [t |-> "object", v |-> m]

\* typeof: null is an 'object'
TypeOf(x) == IF x.t = "null" THEN "object" ELSE x.t

Digit == [d \in 0..9 |-> CASE d = 0 -> "0" [] d = 1 -> "1" [] d = 2 -> "2"
                           [] d = 3 -> "3" [] d = 4 -> "4" [] d = 5 -> "5"
                           [] d = 6 -> "6" [] d = 7 -> "7" [] d = 8 -> "8"
                           [] d = 9 -> "9"]

\* the decimal rendering of a non-negative integer
RECURSIVE NumStr(_)
NumStr(n) == IF n < 10 THEN <<Digit[n]>>
             ELSE NumStr(n \div 10) \o <<Digit[n % 10]>>

\* what a void function call evaluates to
NoResult == "<undefined>"

-----------------------------------------------------------------------------
(* View frame: the loader *)

\* cacheMap.loaderTimeout = null
NullHandle == 0
\* frameState.loaderStep as the module is loaded
InitialLoaderStep == 50

\* _.isNil (lib/core-utils.js) on the timer handle
IsNil(h) == h = NullHandle

\* `${state.loaderWidth}vw`
LoaderUnitOf(w) == NumStr(w) \o <<"v", "w">>

\* mutant: the quotient is rounded down
CeilDiv100_Floor(steps) == 100 \div steps

\* Math.ceil(100 / steps), steps >= 1
CeilDiv100(steps) == (100 + steps - 1) \div steps

Min(a, b) == IF a <= b THEN a ELSE b

\* the handle setTimeout returns: one no pending timer has
NewTimer == CHOOSE i \in 1..(Cardinality(timers) + 1) : i \notin timers

StepArgs == {-1, 0} \cup (1..MaxSteps)

\* the step counts a caller declares for one progress cycle
CycleSteps == 0..MaxCycleSteps

\* mutant: the idle check is dropped
SetLoaderSteps_NoIdleCheck(steps) ==
    /\ IF steps >= 1
       THEN /\ loaderStep' = CeilDiv100(steps)
            /\ loaderWidth' = 1
            /\ loaderUnit' = LoaderUnitOf(loaderWidth')
            /\ cycle' = "loading"
            /\ declared' = steps /\ increments' = 0
       ELSE UNCHANGED <<loaderStep, loaderWidth, loaderUnit, cycle, declared,
                        increments>>
    /\ UNCHANGED <<loaderTimeout, timers>>
    /\ op' = "setLoaderSteps" /\ result' = NoResult /\ raised' = FALSE
    /\ UNCHANGED <<crumbVars, viewVars, restVars>>

SetLoaderSteps(steps) ==
    /\ IF loaderWidth = 0 /\ steps >= 1
       THEN /\ loaderStep' = CeilDiv100(steps)
            /\ loaderWidth' = 1
            /\ loaderUnit' = LoaderUnitOf(loaderWidth')
            /\ cycle' = "loading"
            /\ declared' = steps /\ increments' = 0
       ELSE UNCHANGED <<loaderStep, loaderWidth, loaderUnit, cycle, declared,
                        increments>>
    /\ UNCHANGED <<loaderTimeout, timers>>
    /\ op' = "setLoaderSteps" /\ result' = NoResult /\ raised' = FALSE
    /\ UNCHANGED <<crumbVars, viewVars, restVars>>

\* the loader fields incrementLoader leaves alone, and the call record
IncrementLoaderFrame ==
    /\ UNCHANGED <<loaderStep, declared>>
    /\ increments' = IF cycle = "idle" THEN increments
                     ELSE Min(increments + 1, declared)
    /\ op' = "incrementLoader" /\ result' = NoResult /\ raised' = FALSE
    /\ UNCHANGED <<crumbVars, viewVars, restVars>>

\* mutant: the width is not capped at 100
IncrementLoader_NoCap ==
    LET width == loaderWidth + loaderStep IN
    /\ loaderWidth' = width
    /\ loaderUnit' = LoaderUnitOf(loaderWidth')
    /\ IF width >= 100 /\ IsNil(loaderTimeout)
       THEN /\ loaderTimeout' = NewTimer
            /\ timers' = timers \cup {NewTimer}
       ELSE UNCHANGED <<loaderTimeout, timers>>
    /\ cycle' = IF cycle = "loading" /\ width >= 100 THEN "full" ELSE cycle
    /\ IncrementLoaderFrame

\* mutant: the reset is scheduled on width > 100, which the cap never allows
IncrementLoader_NoSchedule ==
    LET width == Min(loaderWidth + loaderStep, 100) IN
    /\ loaderWidth' = width
    /\ loaderUnit' = LoaderUnitOf(loaderWidth')
    /\ IF width > 100 /\ IsNil(loaderTimeout)
       THEN /\ loaderTimeout' = NewTimer
            /\ timers' = timers \cup {NewTimer}
       ELSE UNCHANGED <<loaderTimeout, timers>>
    /\ cycle' = IF cycle = "loading" /\ width >= 100 THEN "full" ELSE cycle
    /\ IncrementLoaderFrame

\* mutant: a reset is scheduled without looking at the held handle
IncrementLoader_NoPresenceCheck ==
    LET width == Min(loaderWidth + loaderStep, 100) IN
    /\ loaderWidth' = width
    /\ loaderUnit' = LoaderUnitOf(loaderWidth')
    /\ IF width >= 100
       THEN /\ loaderTimeout' = NewTimer
            /\ timers' = timers \cup {NewTimer}
       ELSE UNCHANGED <<loaderTimeout, timers>>
    /\ cycle' = IF cycle = "loading" /\ width >= 100 THEN "full" ELSE cycle
    /\ IncrementLoaderFrame

IncrementLoader ==
    LET width == Min(loaderWidth + loaderStep, 100) IN
    /\ loaderWidth' = width
    /\ loaderUnit' = LoaderUnitOf(loaderWidth')
    /\ IF width >= 100 /\ IsNil(loaderTimeout)
       THEN /\ loaderTimeout' = NewTimer
            /\ timers' = timers \cup {NewTimer}
       ELSE UNCHANGED <<loaderTimeout, timers>>
    /\ cycle' = IF cycle = "loading" /\ width >= 100 THEN "full" ELSE cycle
    /\ IncrementLoaderFrame

\* the loader after incrementLoader() is called with the given width, step
\* and cycle in place
LoaderAdvance(w, step, cyc, dec, inc) ==
    LET width == Min(w + step, 100) IN
    /\ loaderWidth' = width
    /\ loaderStep' = step
    /\ loaderUnit' = LoaderUnitOf(loaderWidth')
    /\ IF width >= 100 /\ IsNil(loaderTimeout)
       THEN /\ loaderTimeout' = NewTimer
            /\ timers' = timers \cup {NewTimer}
       ELSE UNCHANGED <<loaderTimeout, timers>>
    /\ cycle' = IF cyc = "loading" /\ width >= 100 THEN "full" ELSE cyc
    /\ declared' = dec
    /\ increments' = IF cyc = "idle" THEN inc ELSE Min(inc + 1, dec)

\* mutant: the pending timer is cancelled and its handle cleared
ResetLoader_ClearsTimer ==
    /\ loaderStep' = 0
    /\ loaderWidth' = 0
    /\ loaderUnit' = LoaderUnitOf(loaderWidth')
    /\ cycle' = "idle" /\ declared' = 0 /\ increments' = 0
    /\ loaderTimeout' = NullHandle
    /\ timers' = {}
    /\ op' = "resetLoader" /\ result' = NoResult /\ raised' = FALSE
    /\ UNCHANGED <<crumbVars, viewVars, restVars>>

ResetLoader ==
    /\ loaderStep' = 0
    /\ loaderWidth' = 0
    /\ loaderUnit' = LoaderUnitOf(loaderWidth')
    /\ cycle' = "idle" /\ declared' = 0 /\ increments' = 0
    /\ UNCHANGED <<loaderTimeout, timers>>
    /\ op' = "resetLoader" /\ result' = NoResult /\ raised' = FALSE
    /\ UNCHANGED <<crumbVars, viewVars, restVars>>

\* the runtime fires pending timer t: loaderTimeoutCallback(frameState)
LoaderTimeoutCallback(t) ==
    /\ t \in timers
    /\ loaderStep' = 0
    /\ loaderWidth' = 0
    /\ loaderUnit' = LoaderUnitOf(loaderWidth')
    /\ timers' = (timers \ {t}) \ {loaderTimeout}
    /\ loaderTimeout' = NullHandle
    /\ cycle' = "idle" /\ declared' = 0 /\ increments' = 0
    /\ op' = "loaderTimeoutCallback" /\ result' = NoResult /\ raised' = FALSE
    /\ UNCHANGED <<crumbVars, viewVars, restVars>>

TimerFires == \E t \in timers : LoaderTimeoutCallback(t)

-----------------------------------------------------------------------------
(* View frame: the breadcrumb stack *)

Redirects == {"/a", "/b"}
\* displayText as the caller passes it: omitted (the parameter defaults to
\* null) or a label
DisplayTexts == {Null, Str("A")}

\* _.isEmpty (lib/core-utils.js) on the displayText parameter
IsEmpty(x) == x.t \in {"null", "undefined"}

\* Array.prototype.pop: the array that is left
PopRest(arr) == IF Len(arr) = 0 THEN arr ELSE SubSeq(arr, 1, Len(arr) - 1)

\* mutant: routeNext is set whatever the length of the stack
AddBreadcrumb_AlwaysNext(redirect, displayText) ==
    LET text == IF IsEmpty(displayText) THEN redirect ELSE displayText.v IN
    /\ Len(breadcrumbs) < MaxCrumbs
    /\ breadcrumbs' = Append(breadcrumbs, [redirect |-> redirect, displayText |-> text])
    /\ routeNext' = redirect
    /\ op' = "addBreadcrumb" /\ result' = NoResult /\ raised' = FALSE
    /\ UNCHANGED <<loaderVars, viewVars, restVars>>

AddBreadcrumb(redirect, displayText) ==
    LET text == IF IsEmpty(displayText) THEN redirect ELSE displayText.v IN
    /\ Len(breadcrumbs) < MaxCrumbs
    /\ breadcrumbs' = Append(breadcrumbs, [redirect |-> redirect, displayText |-> text])
    /\ routeNext' = IF Len(breadcrumbs') >= 2 THEN redirect ELSE ""
    /\ op' = "addBreadcrumb" /\ result' = NoResult /\ raised' = FALSE
    /\ UNCHANGED <<loaderVars, viewVars, restVars>>

ClearBreadcrumbs ==
    /\ breadcrumbs' = <<>>
    /\ routeNext' = ""
    /\ op' = "clearBreadcrumbs" /\ result' = NoResult /\ raised' = FALSE
    /\ UNCHANGED <<loaderVars, viewVars, restVars>>

\* mutant: one entry is popped, and its redirect taken
PreviousRoute_SinglePop(shouldPop) ==
    /\ op' = "previousRoute"
    /\ IF shouldPop = FALSE
       THEN /\ result' = routeNext /\ raised' = FALSE
            /\ UNCHANGED <<breadcrumbs, routeNext>>
       ELSE IF Len(breadcrumbs) = 0
       THEN /\ routeNext' = ""
            /\ result' = routeNext' /\ raised' = FALSE
            /\ UNCHANGED breadcrumbs
       ELSE /\ breadcrumbs' = PopRest(breadcrumbs)
            /\ routeNext' = breadcrumbs[Len(breadcrumbs)].redirect
            /\ result' = routeNext' /\ raised' = FALSE
    /\ UNCHANGED <<loaderVars, viewVars, restVars>>

\* mutant: the empty stack is handled before the peek
PreviousRoute_EmptyFirst(shouldPop) ==
    /\ op' = "previousRoute"
    /\ IF Len(breadcrumbs) = 0
       THEN /\ routeNext' = ""
            /\ result' = routeNext' /\ raised' = FALSE
            /\ UNCHANGED breadcrumbs
       ELSE IF shouldPop = FALSE
       THEN /\ result' = routeNext /\ raised' = FALSE
            /\ UNCHANGED <<breadcrumbs, routeNext>>
       ELSE IF Len(PopRest(breadcrumbs)) = 0
       THEN /\ breadcrumbs' = PopRest(breadcrumbs)
            /\ raised' = TRUE /\ result' = NoResult
            /\ UNCHANGED routeNext
       ELSE /\ breadcrumbs' = PopRest(PopRest(breadcrumbs))
            /\ routeNext' = PopRest(breadcrumbs)[Len(breadcrumbs) - 1].redirect
            /\ result' = routeNext' /\ raised' = FALSE
    /\ UNCHANGED <<loaderVars, viewVars, restVars>>

\* previousRoute(shouldPop). With one entry the second pop() yields undefined
\* and undefined['redirect'] throws a TypeError: the first pop has happened,
\* the assignment to routeNext has not.
PreviousRoute(shouldPop) ==
    /\ op' = "previousRoute"
    /\ IF shouldPop = FALSE
       THEN /\ result' = routeNext /\ raised' = FALSE
            /\ UNCHANGED <<breadcrumbs, routeNext>>
       ELSE IF Len(breadcrumbs) = 0
       THEN /\ routeNext' = ""
            /\ result' = routeNext' /\ raised' = FALSE
            /\ UNCHANGED breadcrumbs
       ELSE IF Len(PopRest(breadcrumbs)) = 0
       THEN /\ breadcrumbs' = PopRest(breadcrumbs)
            /\ raised' = TRUE /\ result' = NoResult
            /\ UNCHANGED routeNext
       ELSE /\ breadcrumbs' = PopRest(PopRest(breadcrumbs))
            /\ routeNext' = PopRest(breadcrumbs)[Len(breadcrumbs) - 1].redirect
            /\ result' = routeNext' /\ raised' = FALSE
    /\ UNCHANGED <<loaderVars, viewVars, restVars>>

-----------------------------------------------------------------------------
(* REST: strings, encodings *)

\* the string the + operator and URLSearchParams.append make of a value
ToStr(x) ==
    CASE x.t = "string"    -> x.v
      [] x.t = "undefined" -> <<"u", "n", "d", "e", "f", "i", "n", "e", "d">>
      [] x.t = "null"      -> <<"n", "u", "l", "l">>
      [] x.t = "number"    -> NumStr(x.v)
      [] x.t = "object"    -> <<"[", "o", "b", "j", "e", "c", "t", " ",
                                "O", "b", "j", "e", "c", "t", "]">>

\* application/x-www-form-urlencoded byte serialisation of one character
UrlEncodeChar(c) ==
    CASE c = " " -> <<"+">>
      [] c = "&" -> <<"%", "2", "6">>
      [] c = "=" -> <<"%", "3", "D">>
      [] c = "?" -> <<"%", "3", "F">>
      [] c = "/" -> <<"%", "2", "F">>
      [] c = ":" -> <<"%", "3", "A">>
      [] OTHER   -> <<c>>

RECURSIVE UrlEncode(_)
UrlEncode(str) ==
    IF Len(str) = 0 THEN <<>>
    ELSE UrlEncodeChar(Head(str)) \o UrlEncode(Tail(str))

\* the name=value pairs URLSearchParams holds after the for-in loop over
\* options.query: one per entry whose value is not null, in iteration order
RECURSIVE QueryPairs(_)

\* mutant: the null test is dropped, a null value is appended as "null"
RECURSIVE QueryPairs_KeepNull(_)
QueryPairs_KeepNull(entries) ==
    IF Len(entries) = 0 THEN <<>>
    ELSE <<[k |-> Head(entries).k, v |-> ToStr(Head(entries).v)]>>
         \o QueryPairs_KeepNull(Tail(entries))

QueryPairs(entries) ==
    IF Len(entries) = 0 THEN <<>>
    ELSE (IF Head(entries).v # Null
          THEN <<[k |-> Head(entries).k, v |-> ToStr(Head(entries).v)]>>
          ELSE <<>>) \o QueryPairs(Tail(entries))

\* URLSearchParams.prototype.toString
RECURSIVE QueryToString(_)
QueryToString(pairs) ==
    IF Len(pairs) = 0 THEN <<>>
    ELSE UrlEncode(Head(pairs).k) \o <<"=">> \o UrlEncode(Head(pairs).v)
         \o (IF Len(pairs) > 1 THEN <<"&">> ELSE <<>>)
         \o QueryToString(Tail(pairs))

\* the entries a for-in loop visits: none for null
EntriesOf(obj) == IF obj.t = "null" THEN <<>> ELSE obj.v

\* character codes of the characters credentials are made of
CharCode(c) ==
    CASE c = "u" -> 117 [] c = "p" -> 112 [] c = ":" -> 58
      [] c = "n" -> 110 [] c = "l" -> 108

Base64Alphabet ==
    << "A", "B", "C", "D", "E", "F", "G", "H", "I", "J", "K", "L", "M",
       "N", "O", "P", "Q", "R", "S", "T", "U", "V", "W", "X", "Y", "Z",
       "a", "b", "c", "d", "e", "f", "g", "h", "i", "j", "k", "l", "m",
       "n", "o", "p", "q", "r", "s", "t", "u", "v", "w", "x", "y", "z",
       "0", "1", "2", "3", "4", "5", "6", "7", "8", "9", "+", "/" >>

Sextet(n) == Base64Alphabet[n + 1]

\* btoa: three bytes to four characters, '=' padding
RECURSIVE Btoa(_)
Btoa(str) ==
    IF Len(str) = 0 THEN <<>>
    ELSE LET a == CharCode(str[1])
             b == IF Len(str) >= 2 THEN CharCode(str[2]) ELSE 0
             c == IF Len(str) >= 3 THEN CharCode(str[3]) ELSE 0
         IN  << Sextet(a \div 4),
                Sextet((a % 4) * 16 + b \div 16),
                IF Len(str) >= 2 THEN Sextet((b % 16) * 4 + c \div 64) ELSE "=",
                IF Len(str) >= 3 THEN Sextet(c % 64) ELSE "=" >>
             \o (IF Len(str) > 3 THEN Btoa(SubSeq(str, 4, Len(str))) ELSE <<>>)

-----------------------------------------------------------------------------
(* REST: configure *)

\* configure throws where Object.keys is applied to null
ConfigureThrows(opts) == opts.headers = Null

\* mutant: the url option is taken when truthy (as line 113 does), and the
\* resource otherwise
ResolveUrl_TruthyUrl(opts) ==
    IF TypeOf(opts.url) = "string" /\ opts.url.v # <<>>
    THEN opts.url.v
    ELSE host \o ToStr(opts.resource)

\* mutant: the resource is preferred to the endpoint
ResolveUrl_ResourceFirst(opts) ==
    IF TypeOf(opts.url) = "string"
    THEN opts.url.v
    ELSE host \o ToStr(IF TypeOf(opts.resource) = "string"
                       THEN opts.resource ELSE opts.endpoint)

\* lines 118-122: the URL before the query is appended
ResolveUrl(opts) ==
    IF TypeOf(opts.url) = "string"
    THEN opts.url.v
    ELSE host \o ToStr(IF TypeOf(opts.endpoint) = "string"
                       THEN opts.endpoint ELSE opts.resource)

\* mutant: the store's entries are written last
BuildHeaders_StoreLast(opts) ==
    LET auth == IF TypeOf(authorization) = "string"
                THEN "Authorization" :> authorization ELSE <<>>
        acc  == IF TypeOf(accept) = "string" THEN "Accept" :> accept ELSE <<>>
        ct   == IF TypeOf(contentType) = "string"
                THEN "Content-Type" :> contentType ELSE <<>>
        own  == IF TypeOf(opts.headers) = "object" THEN opts.headers.v ELSE <<>>
    IN  auth @@ acc @@ ct @@ own

\* lines 126-139: the header mapping; the caller's entries are written last
BuildHeaders(opts) ==
    LET auth == IF TypeOf(authorization) = "string"
                THEN "Authorization" :> authorization ELSE <<>>
        acc  == IF TypeOf(accept) = "string" THEN "Accept" :> accept ELSE <<>>
        ct   == IF TypeOf(contentType) = "string"
                THEN "Content-Type" :> contentType ELSE <<>>
        own  == IF TypeOf(opts.headers) = "object" THEN opts.headers.v ELSE <<>>
    IN  own @@ ct @@ acc @@ auth

Configure(opts) ==
    LET base    == ResolveUrl(opts)
        headers == BuildHeaders(opts)
    IN  [ method |-> opts.method,
          url |-> IF TypeOf(opts.query) = "object"
                  THEN base \o <<"?">>
                       \o QueryToString(QueryPairs(EntriesOf(opts.query)))
                  ELSE base,
          data |-> IF TypeOf(opts.data) = "object" THEN opts.data ELSE Undefined,
          headers |-> IF DOMAIN headers = {} THEN Undefined ELSE Obj(headers),
          withCredentials |-> TypeOf(authorization) = "string" ]

-----------------------------------------------------------------------------
(* REST: the client and the configuration store *)

RECURSIVE SeqsUpTo(_, _)
SeqsUpTo(S, n) ==
    IF n = 0 THEN {<<>>}
    ELSE SeqsUpTo(S, n - 1)
         \cup {Append(q, c) : q \in {r \in SeqsUpTo(S, n - 1) : Len(r) = n - 1},
                              c \in S}

Hosts == SeqsUpTo({"h"}, MaxHostLen)

UrlValues      ==
    {Undefined, Null, Str(<<>>), Str(<<"u">>), Str(<<"u", "?", "c">>)}
EndpointValues == {Undefined, Str(<<"/", "x">>)}
ResourceValues == {Undefined, Str(<<"/", "r">>)}
QueryValues    ==
    { Undefined, Null,
      Obj(<<[k |-> <<"a">>, v |-> Str(<<"b", " ", "&">>)]>>),
      Obj(<<[k |-> <<"a">>, v |-> Null], [k |-> <<"b">>, v |-> Num(1)]>>) }
\* the body and the headers a call is made with
BodyAndHeaders ==
    { [data |-> Undefined, headers |-> Undefined],
      [data |-> Obj("payload"),
       headers |-> Obj("Accept" :> Str("text/html")
                       @@ "Authorization" :> Str(<<"u", ":", "p">>)
                       @@ "X-Key" :> Str("k"))],
      [data |-> Undefined, headers |-> Null] }

CallOptions ==
    { [ method |-> "GET", url |-> u, endpoint |-> e, resource |-> r,
        query |-> q, data |-> bh.data, headers |-> bh.headers ] :
      u \in UrlValues, e \in EndpointValues, r \in ResourceValues,
      q \in QueryValues, bh \in BodyAndHeaders }

\* what a REST operation that calls no transport leaves in the call record
NoRestCall ==
    /\ options' = Undefined /\ request' = Undefined
    /\ UNCHANGED inFlight
    /\ result' = NoResult /\ raised' = FALSE

\* a call the transport holds: who made it, its method, and (history) the
\* loader step as the handler that made the call leaves it
Flight(origin, method) ==
    [origin |-> origin, method |-> method, issuedStep |-> loaderStep']

\* http(configure(opts)): the transport is handed the descriptor, unless
\* configure throws
Http(opts, origin) ==
    /\ Len(inFlight) < MaxInFlight
    /\ options' = opts
    /\ IF ConfigureThrows(opts)
       THEN request' = Undefined /\ raised' = TRUE /\ UNCHANGED inFlight
       ELSE /\ request' = Configure(opts) /\ raised' = FALSE
            /\ inFlight' = Append(inFlight, Flight(origin, opts.method))

\* request(options): http(configure(options))
Request(opts) ==
    /\ op' = "request"
    /\ UNCHANGED <<host, authorization, accept, contentType, restExtra>>
    /\ UNCHANGED <<loaderVars, crumbVars, viewVars>>
    /\ Http(opts, "client")
    /\ result' = NoResult

\* the options object a verb operation builds
VerbOptions(method, endpoint, payload) ==
    [ method |-> method, url |-> Undefined, endpoint |-> endpoint,
      resource |-> Undefined, query |-> Undefined, data |-> payload,
      headers |-> Undefined ]

\* what every verb operation leaves alone
VerbFrame ==
    /\ result' = NoResult
    /\ UNCHANGED <<host, authorization, accept, contentType, restExtra>>
    /\ UNCHANGED <<loaderVars, crumbVars, viewVars>>

\* get(endpoint)
Get(endpoint) ==
    /\ op' = "get"
    /\ VerbFrame
    /\ Http(VerbOptions("GET", endpoint, Undefined), "client")

\* post(endpoint, payload)
Post(endpoint, payload) ==
    /\ op' = "post"
    /\ VerbFrame
    /\ Http(VerbOptions("POST", endpoint, payload), "client")

\* put(endpoint, payload)
Put(endpoint, payload) ==
    /\ op' = "put"
    /\ VerbFrame
    /\ Http(VerbOptions("PUT", endpoint, payload), "client")

\* patch(endpoint, payload)
Patch(endpoint, payload) ==
    /\ op' = "patch"
    /\ VerbFrame
    /\ Http(VerbOptions("PATCH", endpoint, payload), "client")

\* delete(endpoint)
Delete(endpoint) ==
    /\ op' = "delete"
    /\ VerbFrame
    /\ Http(VerbOptions("DELETE", endpoint, Undefined), "client")

\* the endpoints and payloads the verb operations are called with
Endpoints == {Str(<<"/", "x">>)}
Payloads  == {Undefined, Obj("payload")}

\* the factory's setHost(host)
SetHost(h) ==
    /\ op' = "setHost"
    /\ host' = h
    /\ NoRestCall
    /\ UNCHANGED <<authorization, accept, contentType, restExtra>>
    /\ UNCHANGED <<loaderVars, crumbVars, viewVars>>

\* the provider's setHost(host)
ProviderSetHost(h) ==
    /\ op' = "provider.setHost"
    /\ host' = h
    /\ NoRestCall
    /\ UNCHANGED <<authorization, accept, contentType, restExtra>>
    /\ UNCHANGED <<loaderVars, crumbVars, viewVars>>

\* _.isDefined (lib/utility.js) on a field of REST_CONFIG
IsDefined(x) == x.t # "undefined"

ConfigKeys == {"host", "authorization", "accept", "contentType"}
InitKeys   == ConfigKeys \cup {"unknownKey"}

\* the names every object inherits from Object.prototype: toString stands
\* for them (constructor, valueOf, hasOwnProperty, ...)
InheritedNames == {"toString"}

\* a function object
Function == [t |-> "function"]

\* the value initialize is given for each key other than host
InitValue(name) ==
    CASE name = "authorization" -> Str(<<"u", ":", "p">>)
      [] name = "accept"        -> Str("text/plain")
      [] name = "contentType"   -> Str("text/plain")
      [] name = "unknownKey"    -> Num(1)
      [] name = "toString"      -> Num(1)

\* the options objects with any set of the given keys
InitOptionsOver(allKeys) ==
    { [k \in keys |-> IF k = "host" THEN Str(h) ELSE InitValue(k)] :
          keys \in SUBSET allKeys, h \in Hosts }

\* the options objects initialize is called with: any set of keys
InitOptions == InitOptionsOver(InitKeys)

\* the same, with a key that names an inherited property
StoreInitOptions == InitOptionsOver(InitKeys \cup InheritedNames)

\* REST_CONFIG[name] as the loop of initialize reads it: an own property, or
\* one found on the prototype chain
ConfigField(name) ==
    CASE name = "host"            -> Str(host)
      [] name = "authorization"   -> authorization
      [] name = "accept"          -> accept
      [] name = "contentType"     -> contentType
      [] name \in DOMAIN restExtra -> restExtra[name]
      [] name \in InheritedNames  -> Function
      [] OTHER                    -> Undefined

\* mutant: the credential is stored as given
InitField_RawAuthorization(o, name) ==
    IF name \in DOMAIN o /\ IsDefined(ConfigField(name))
    THEN IF name = "authorization"
         THEN Str(<<"B", "a", "s", "i", "c", " ">> \o ToStr(o[name]))
         ELSE o[name]
    ELSE ConfigField(name)

\* the value the loop of initialize leaves in REST_CONFIG[name]
InitField(o, name) ==
    IF name \in DOMAIN o /\ IsDefined(ConfigField(name))
    THEN IF name = "authorization"
         THEN Str(<<"B", "a", "s", "i", "c", " ">> \o Btoa(ToStr(o[name])))
         ELSE o[name]
    ELSE ConfigField(name)

\* the own properties the loop writes that the literal of REST_CONFIG lacks
InitExtra(o) ==
    LET added == {k \in DOMAIN o \ ConfigKeys : IsDefined(ConfigField(k))}
        names == DOMAIN restExtra \cup added
    IN  IF names = {} THEN <<>> ELSE [k \in names |-> InitField(o, k)]

\* the provider's initialize(options)
Initialize(o) ==
    /\ op' = "initialize"
    /\ host' = InitField(o, "host").v
    /\ authorization' = InitField(o, "authorization")
    /\ accept' = InitField(o, "accept")
    /\ contentType' = InitField(o, "contentType")
    /\ restExtra' = InitExtra(o)
    /\ NoRestCall
    /\ UNCHANGED <<loaderVars, crumbVars, viewVars>>

Usernames == {<<"u">>}
Passwords == {Undefined, Str(<<"p">>)}

\* password || ''
OrEmpty(x) == IF x.t = "string" /\ x.v # <<>> THEN x.v ELSE <<>>

\* the provider's setBasicAuth(username, password)
SetBasicAuth(username, password) ==
    /\ op' = "setBasicAuth"
    /\ authorization' = Str(<<"B", "a", "s", "i", "c", " ">>
                            \o Btoa(username \o <<":">> \o OrEmpty(password)))
    /\ NoRestCall
    /\ UNCHANGED <<host, accept, contentType, restExtra>>
    /\ UNCHANGED <<loaderVars, crumbVars, viewVars>>

\* the types the setters are given: a media type, or nothing
MediaTypes == {Str("text/plain"), Undefined}

\* the provider's setAcceptType(type)
SetAcceptType(type) ==
    /\ op' = "setAcceptType"
    /\ accept' = type
    /\ NoRestCall
    /\ UNCHANGED <<host, authorization, contentType, restExtra>>
    /\ UNCHANGED <<loaderVars, crumbVars, viewVars>>

\* the provider's setContentType(type)
SetContentType(type) ==
    /\ op' = "setContentType"
    /\ contentType' = type
    /\ NoRestCall
    /\ UNCHANGED <<host, authorization, accept, restExtra>>
    /\ UNCHANGED <<loaderVars, crumbVars, viewVars>>

\* the calls made while the store is reconfigured: an endpoint, with and
\* without headers of the caller's
StoreCallOptions ==
    { o \in CallOptions :
        /\ o.url = Undefined /\ o.resource = Undefined /\ o.query = Undefined
        /\ o.endpoint # Undefined }

-----------------------------------------------------------------------------
(* View frame: what callers hold *)

\* no getter has been called yet
NothingHeld == [breadcrumbs |-> "none", actionButtons |-> "none", state |-> "none"]

\* getBreadcrumbs(): the caller receives the array frameState.breadcrumbs
\* refers to
GetBreadcrumbs ==
    /\ held' = [held EXCEPT !.breadcrumbs = breadcrumbsRef]
    /\ op' = "getBreadcrumbs" /\ result' = breadcrumbsRef /\ raised' = FALSE
    /\ UNCHANGED <<actionButtons, frameTitle, sessionTheme, serverHost,
                   frameExtra, breadcrumbsRef, actionButtonsRef>>
    /\ UNCHANGED <<loaderVars, crumbVars, restVars>>

\* getActions()
GetActions ==
    /\ held' = [held EXCEPT !.actionButtons = actionButtonsRef]
    /\ op' = "getActions" /\ result' = actionButtonsRef /\ raised' = FALSE
    /\ UNCHANGED <<actionButtons, frameTitle, sessionTheme, serverHost,
                   frameExtra, breadcrumbsRef, actionButtonsRef>>
    /\ UNCHANGED <<loaderVars, crumbVars, restVars>>

\* getState(): frameState is a const binding of the module
GetState ==
    /\ held' = [held EXCEPT !.state = "frameState"]
    /\ op' = "getState" /\ result' = "frameState" /\ raised' = FALSE
    /\ UNCHANGED <<actionButtons, frameTitle, sessionTheme, serverHost,
                   frameExtra, breadcrumbsRef, actionButtonsRef>>
    /\ UNCHANGED <<loaderVars, crumbVars, restVars>>

-----------------------------------------------------------------------------
(* View frame: action buttons *)

\* a default parameter value applies when the argument is undefined
Default(x, d) == IF x = Undefined THEN d ELSE x

DefaultStyles ==
    <<"s", "u", "c", "c", "e", "s", "s", " ", "c", "r", "e", "a", "t", "e">>

\* the descriptor addAction pushes
ActionDescriptor(displayText, redirect, styles, target, endpoint) ==
    [ styles      |-> <<"b", "t", "n", " ">>
                      \o ToStr(Default(styles, Str(DefaultStyles))),
      displayText |-> displayText,
      redirect    |-> Default(redirect, Str("!#/")),
      target      |-> Default(target, Str("object")),
      endpoint    |-> Default(endpoint, Str("!#/")) ]

\* mutant: the descriptor is put first, and the styles are the caller's own
AddAction_Unshift(displayText, redirect, styles, target, endpoint) ==
    /\ Len(actionButtons) < MaxActions
    /\ actionButtons' =
         <<[ActionDescriptor(displayText, redirect, styles, target, endpoint)
              EXCEPT !.styles = ToStr(Default(styles, Str(DefaultStyles)))]>>
         \o actionButtons
    /\ op' = "addAction" /\ result' = NoResult /\ raised' = FALSE
    /\ UNCHANGED <<frameTitle, sessionTheme, serverHost, frameExtra,
                   breadcrumbsRef, actionButtonsRef, held>>
    /\ UNCHANGED <<loaderVars, crumbVars, restVars>>

\* addAction(displayText, redirect, styles, target, endpoint)
AddAction(displayText, redirect, styles, target, endpoint) ==
    /\ Len(actionButtons) < MaxActions
    /\ actionButtons' =
         Append(actionButtons,
                ActionDescriptor(displayText, redirect, styles, target, endpoint))
    /\ op' = "addAction" /\ result' = NoResult /\ raised' = FALSE
    /\ UNCHANGED <<frameTitle, sessionTheme, serverHost, frameExtra,
                   breadcrumbsRef, actionButtonsRef, held>>
    /\ UNCHANGED <<loaderVars, crumbVars, restVars>>

\* clearActions(): splice(0) empties the array in place
ClearActions ==
    /\ actionButtons' = <<>>
    /\ op' = "clearActions" /\ result' = NoResult /\ raised' = FALSE
    /\ UNCHANGED <<frameTitle, sessionTheme, serverHost, frameExtra,
                   breadcrumbsRef, actionButtonsRef, held>>
    /\ UNCHANGED <<loaderVars, crumbVars, restVars>>

\* the arguments addAction is called with: displayText, redirect, styles
\* (undefined where the caller omits one)
ActionArgs ==
    { <<Str("New Item"), Str("#/new"), Undefined>>,
      <<Str("Edit"), Undefined, Str(<<"d", "a", "n", "g", "e", "r">>)>> }

-----------------------------------------------------------------------------
(* View frame: the provider's initialize *)

\* an array the caller built
Array(id, items) == [t |-> "array", id |-> id, v |-> items]

FrameKeys ==
    {"sessionTheme", "frameTitle", "routeNext", "breadcrumbs", "serverHost",
     "actionButtons", "loaderWidth", "loaderStep", "loaderUnit"}

\* frameState[name] as the loop of initialize reads it: an own property, or
\* one found on the prototype chain
FrameField(name) ==
    CASE name = "sessionTheme"  -> Str(sessionTheme)
      [] name = "frameTitle"    -> Str(frameTitle)
      [] name = "routeNext"     -> Str(routeNext)
      [] name = "breadcrumbs"   -> Array(breadcrumbsRef, breadcrumbs)
      [] name = "serverHost"    -> Str(serverHost)
      [] name = "actionButtons" -> Array(actionButtonsRef, actionButtons)
      [] name = "loaderWidth"   -> Num(loaderWidth)
      [] name = "loaderStep"    -> Num(loaderStep)
      [] name = "loaderUnit"    -> Str(loaderUnit)
      [] name \in DOMAIN frameExtra -> frameExtra[name]
      [] name \in InheritedNames -> Function
      [] OTHER -> Undefined

\* the value the loop of initialize leaves in frameState[name]
FrameInitField(o, name) ==
    IF name \in DOMAIN o /\ IsDefined(FrameField(name))
    THEN o[name] ELSE FrameField(name)

\* the own properties the loop writes that the literal of frameState lacks
FrameInitExtra(o) ==
    LET added == {k \in DOMAIN o \ FrameKeys : IsDefined(FrameField(k))}
        names == DOMAIN frameExtra \cup added
    IN  IF names = {} THEN <<>> ELSE [k \in names |-> FrameInitField(o, k)]

\* the view-frame provider's initialize(options)
FrameInitialize(o) ==
    /\ sessionTheme' = FrameInitField(o, "sessionTheme").v
    /\ frameTitle' = FrameInitField(o, "frameTitle").v
    /\ routeNext' = FrameInitField(o, "routeNext").v
    /\ breadcrumbs' = FrameInitField(o, "breadcrumbs").v
    /\ breadcrumbsRef' = FrameInitField(o, "breadcrumbs").id
    /\ serverHost' = FrameInitField(o, "serverHost").v
    /\ actionButtons' = FrameInitField(o, "actionButtons").v
    /\ actionButtonsRef' = FrameInitField(o, "actionButtons").id
    /\ loaderWidth' = FrameInitField(o, "loaderWidth").v
    /\ loaderStep' = FrameInitField(o, "loaderStep").v
    /\ loaderUnit' = FrameInitField(o, "loaderUnit").v
    /\ frameExtra' = FrameInitExtra(o)
    /\ op' = "frame.initialize" /\ result' = NoResult /\ raised' = FALSE
    /\ UNCHANGED <<held, loaderTimeout, timers, cycle, declared, increments,
                   restVars>>

\* options naming loader fields
LoaderInitOptions ==
    { <<>>,
      [unknownKey |-> Num(1)],
      [loaderWidth |-> Num(40)],
      [loaderStep |-> Num(10)],
      [loaderWidth |-> Num(40), loaderUnit |-> Str(<<"4", "0", "v", "w">>)] }

\* options naming the other fields of frameState, and names it lacks
FrameInitOptions ==
    { <<>>,
      [unknownKey |-> Num(1), toString |-> Num(1)],
      [breadcrumbs |-> Array("options.breadcrumbs",
                             <<[redirect |-> "/a", displayText |-> "/a"]>>)],
      [actionButtons |-> Array("options.actionButtons", <<>>)],
      [sessionTheme |-> Str("#000000"), frameTitle |-> Str("Consumers"),
       serverHost |-> Str("h"), loaderWidth |-> Num(40),
       loaderStep |-> Num(10)] }

-----------------------------------------------------------------------------
(* The consumer list controller, and the transport's completions *)

\* _.isObject and _.isText (lib/core-toolkit.js) on the filters
IsObject(x) == x.t = "object"
IsText(x)   == x.t = "string"

\* the pairs URLSearchParams holds after the for-in loop of urlQuery
RECURSIVE FilterPairs(_)
FilterPairs(entries) ==
    IF Len(entries) = 0 THEN <<>>
    ELSE <<[k |-> Head(entries).k, v |-> ToStr(Head(entries).v)]>>
         \o FilterPairs(Tail(entries))

\* urlQuery(options) of lib/rest-utils.js
UrlQuery(filters) ==
    IF IsObject(filters) THEN <<"?">> \o QueryToString(FilterPairs(filters.v))
    ELSE IF IsText(filters) THEN <<"?">> \o filters.v
    ELSE <<>>

\* the filters fetchConsumerList is called with: none, a query string, a
\* mapping
Filters ==
    { Null, Str(<<"s", "=", "1">>),
      Obj(<<[k |-> <<"s">>, v |-> Num(1)]>>) }

\* scope.fetchConsumerList(filters): restClient.get, setLoaderSteps(2),
\* incrementLoader(); the callbacks registered on the request run when the
\* transport completes it
FetchConsumerList(filters) ==
    LET accepted == loaderWidth = 0 IN
    /\ op' = "fetchConsumerList"
    /\ LoaderAdvance(IF accepted THEN 1 ELSE loaderWidth,
                     IF accepted THEN CeilDiv100(2) ELSE loaderStep,
                     IF accepted THEN "loading" ELSE cycle,
                     IF accepted THEN 2 ELSE declared,
                     IF accepted THEN 0 ELSE increments)
    /\ Http(VerbOptions("GET",
                        Str(<<"/", "c", "o", "n", "s", "u", "m", "e", "r", "s">>
                            \o UrlQuery(filters)),
                        Undefined),
            "fetchConsumerList")
    /\ result' = "true"
    /\ UNCHANGED <<host, authorization, accept, contentType, restExtra>>
    /\ UNCHANGED <<crumbVars, viewVars>>

\* how the transport completes a call
Outcomes == {"resolved", "rejected"}

\* what is in flight once the i-th call has completed
Without(flights, i) ==
    SubSeq(flights, 1, i - 1) \o SubSeq(flights, i + 1, Len(flights))

\* mutant: the completion advances the loader by the step of the cycle the
\* call was issued in
Completes_IssuedStep(i, outcome) ==
    /\ i \in 1..Len(inFlight)
    /\ inFlight' = Without(inFlight, i)
    /\ IF inFlight[i].origin = "fetchConsumerList"
       THEN LoaderAdvance(loaderWidth, inFlight[i].issuedStep, cycle, declared,
                          increments)
       ELSE UNCHANGED loaderVars
    /\ op' = "completion" /\ raised' = FALSE
    /\ result' = [index |-> i, outcome |-> outcome, flight |-> inFlight[i]]
    /\ options' = Undefined /\ request' = Undefined
    /\ UNCHANGED <<host, authorization, accept, contentType, restExtra>>
    /\ UNCHANGED <<crumbVars, viewVars>>

\* the transport completes the i-th call in flight: the callbacks the caller
\* registered run. Those of fetchConsumerList fill the controller's scope
\* (resolved) or show a toast (rejected), and in both cases (finally) call
\* incrementLoader(); the client registers none of its own.
Completes(i, outcome) ==
    /\ i \in 1..Len(inFlight)
    /\ inFlight' = Without(inFlight, i)
    /\ IF inFlight[i].origin = "fetchConsumerList"
       THEN LoaderAdvance(loaderWidth, loaderStep, cycle, declared, increments)
       ELSE UNCHANGED loaderVars
    /\ op' = "completion" /\ raised' = FALSE
    /\ result' = [index |-> i, outcome |-> outcome, flight |-> inFlight[i]]
    /\ options' = Undefined /\ request' = Undefined
    /\ UNCHANGED <<host, authorization, accept, contentType, restExtra>>
    /\ UNCHANGED <<crumbVars, viewVars>>

-----------------------------------------------------------------------------
(* The initial state: the module-level objects as the modules are loaded *)

Init ==
    /\ loaderWidth = 0
    /\ loaderStep = InitialLoaderStep
    /\ loaderUnit = <<"0", "v", "w">>
    /\ loaderTimeout = NullHandle
    /\ timers = {}
    /\ cycle = "idle" /\ declared = 0 /\ increments = 0
    /\ breadcrumbs = <<>>
    /\ routeNext = ""
    /\ actionButtons = <<>>
    /\ frameTitle = ""
    /\ sessionTheme = "#FFFFFF"
    /\ serverHost = ""
    /\ frameExtra = <<>>
    /\ breadcrumbsRef = "frameState.breadcrumbs"
    /\ actionButtonsRef = "frameState.actionButtons"
    /\ held = NothingHeld
    /\ restExtra = <<>>
    /\ host = <<>>
    /\ authorization = Null
    /\ accept = Str("application/json")
    /\ contentType = Str("application/json")
    /\ options = Undefined
    /\ request = Undefined
    /\ inFlight = <<>>
    /\ op = "init" /\ result = NoResult /\ raised = FALSE

NextFrame ==
    \/ \E steps \in StepArgs : SetLoaderSteps(steps)
    \/ IncrementLoader
    \/ ResetLoader
    \/ TimerFires
    \/ \E redirect \in Redirects, displayText \in DisplayTexts :
          AddBreadcrumb(redirect, displayText)
    \/ ClearBreadcrumbs
    \/ \E shouldPop \in BOOLEAN : PreviousRoute(shouldPop)

SpecFrame == Init /\ [][NextFrame]_vars

\* the event loop runs a due timer's callback
LiveSpecFrame == SpecFrame /\ WF_vars(TimerFires)

NextRest ==
    \/ \E opts \in CallOptions : Request(opts)
    \/ \E h \in Hosts : SetHost(h)
    \/ \E h \in Hosts : ProviderSetHost(h)
    \/ \E o \in InitOptions : Initialize(o)
    \/ \E i \in 1..MaxInFlight, outcome \in Outcomes : Completes(i, outcome)

SpecRest == Init /\ [][NextRest]_vars

\* the loader under its operations and the provider's initialize
NextLoader ==
    \/ \E steps \in StepArgs : SetLoaderSteps(steps)
    \/ IncrementLoader
    \/ ResetLoader
    \/ TimerFires
    \/ \E o \in LoaderInitOptions : FrameInitialize(o)

SpecLoader == Init /\ [][NextLoader]_vars

\* the loader alone, with cycles of up to MaxCycleSteps declared steps
NextCycle ==
    \/ \E steps \in CycleSteps : SetLoaderSteps(steps)
    \/ IncrementLoader
    \/ ResetLoader
    \/ TimerFires

SpecCycle == Init /\ [][NextCycle]_vars

\* the frame's action buttons and breadcrumbs, the provider's initialize and
\* the getters
NextView ==
    \/ \E a \in ActionArgs : AddAction(a[1], a[2], a[3], Undefined, Undefined)
    \/ ClearActions
    \/ GetBreadcrumbs
    \/ GetActions
    \/ GetState
    \/ \E o \in FrameInitOptions : FrameInitialize(o)
    \/ AddBreadcrumb("/a", Null)
    \/ ClearBreadcrumbs
    \/ \E shouldPop \in BOOLEAN : PreviousRoute(shouldPop)

SpecView == Init /\ [][NextView]_vars

\* the configuration store under its initializer and setters
NextStore ==
    \/ \E o \in StoreInitOptions : Initialize(o)
    \/ \E h \in Hosts : SetHost(h)
    \/ \E h \in Hosts : ProviderSetHost(h)
    \/ \E username \in Usernames, password \in Passwords :
          SetBasicAuth(username, password)
    \/ \E type \in MediaTypes : SetAcceptType(type)
    \/ \E type \in MediaTypes : SetContentType(type)
    \/ \E opts \in StoreCallOptions : Request(opts)
    \/ \E i \in 1..MaxInFlight, outcome \in Outcomes : Completes(i, outcome)

SpecStore == Init /\ [][NextStore]_vars

\* the REST client's operations and the transport's completions
NextClient ==
    \/ \E opts \in StoreCallOptions : Request(opts)
    \/ \E endpoint \in Endpoints : Get(endpoint)
    \/ \E endpoint \in Endpoints, payload \in Payloads : Post(endpoint, payload)
    \/ \E endpoint \in Endpoints, payload \in Payloads : Put(endpoint, payload)
    \/ \E endpoint \in Endpoints, payload \in Payloads : Patch(endpoint, payload)
    \/ \E endpoint \in Endpoints : Delete(endpoint)
    \/ \E h \in Hosts : SetHost(h)
    \/ \E i \in 1..MaxInFlight, outcome \in Outcomes : Completes(i, outcome)

SpecClient == Init /\ [][NextClient]_vars

\* the consumer list controller's fetches, their completions, and the loader
\* as other views drive it meanwhile
NextFetch ==
    \/ \E filters \in Filters : FetchConsumerList(filters)
    \/ \E i \in 1..MaxInFlight, outcome \in Outcomes : Completes(i, outcome)
    \/ \E steps \in StepArgs : SetLoaderSteps(steps)
    \/ IncrementLoader
    \/ ResetLoader
    \/ TimerFires

SpecFetch == Init /\ [][NextFetch]_vars

-----------------------------------------------------------------------------
(* Claims about the view frame *)

\* C1: previousRoute() with shouldPop = true never raises, whatever the size
\* of the breadcrumb stack; on a one-entry stack it returns the empty string
\* and routeNext becomes empty.
C1_PreviousRouteNeverRaises ==
    [][PreviousRoute(TRUE) =>
          /\ raised' = FALSE
          /\ Len(breadcrumbs) = 1 => (result' = "" /\ routeNext' = "")]_vars

\* C2: loaderWidth stays within 0..100 in every reachable state, for every
\* interleaving of setLoaderSteps, incrementLoader, resetLoader and the
\* deferred reset.
C2_LoaderWidthInRange == loaderWidth \in 0..100

\* C2 witness: an incrementLoader call whose sum exceeded 100 (1 + 3 * 34)
\* and was capped.
C2_Witness ==
    op = "incrementLoader" /\ loaderStep = 34 /\ loaderWidth = 100

\* the loader is back in Idle and no reset timer is held
LoaderIdle ==
    loaderWidth = 0 /\ loaderStep = 0 /\ loaderTimeout = NullHandle

\* C3: whenever incrementLoader brings loaderWidth to 100, the deferred reset
\* eventually fires and sets loaderWidth = 0, loaderStep = 0 and clears the
\* handle, with no further call needed (only the timer is scheduled fairly).
C3_FullLeadsToIdle ==
    (op = "incrementLoader" /\ loaderWidth = 100) ~> LoaderIdle

\* C3 witness: the deferred reset has fired after a cycle reached 100.
C3_Witness == op = "loaderTimeoutCallback" /\ LoaderIdle /\ timers = {}

\* C4: setLoaderSteps(m) called while a cycle started by an earlier accepted
\* setLoaderSteps has not been reset changes none of loaderStep, loaderWidth
\* and loaderUnit, for every m.
C4_SetLoaderStepsNoOpWhileLoading ==
    [][\A m \in StepArgs :
          (cycle # "idle" /\ SetLoaderSteps(m)) =>
              UNCHANGED <<loaderStep, loaderWidth, loaderUnit>>]_vars

\* C4 witness: setLoaderSteps was just called in the middle of a cycle (an
\* accepted call would have left loaderWidth = 1).
C4_Witness == op = "setLoaderSteps" /\ cycle = "loading" /\ loaderWidth > 1

\* C5: within one progress cycle (from the accepted setLoaderSteps until the
\* cycle reaches 100 or resetLoader is called) no step of the system lowers
\* loaderWidth, a deferred reset scheduled by an earlier cycle included.
C5_MonotoneWithinCycle ==
    [][(cycle = "loading" /\ ~ResetLoader) => loaderWidth' >= loaderWidth]_vars

\* at most one timer is pending, and it is the one whose handle is held
OneTimerHeld ==
    /\ Cardinality(timers) <= 1
    /\ loaderTimeout = NullHandle <=> timers = {}
    /\ loaderTimeout # NullHandle => timers = {loaderTimeout}

\* C6: at most one loader-reset timer is outstanding in any reachable state;
\* a timer is scheduled only by incrementLoader and only when the held handle
\* is empty, and the handle is emptied exactly when the timer fires.
C6_SingleLoaderTimer ==
    /\ []OneTimerHeld
    /\ [][/\ (timers' \ timers # {}) => (IsNil(loaderTimeout) /\ IncrementLoader)
          /\ TimerFires => loaderTimeout' = NullHandle
          /\ (loaderTimeout # NullHandle /\ loaderTimeout' = NullHandle)
                => TimerFires]_vars

\* C6 witness: incrementLoader has brought a cycle to 100 and the one timer
\* pending is the one whose handle is held.
C6_Witness ==
    /\ op = "incrementLoader" /\ loaderWidth = 100 /\ cycle = "full"
    /\ timers = {loaderTimeout} /\ loaderTimeout # NullHandle

\* C7: previousRoute() with shouldPop = true on a stack of k >= 2 entries
\* removes exactly the top two entries, keeps the lower ones, and sets and
\* returns routeNext as the redirect of the second-from-top entry; on an
\* empty stack it returns the empty string and leaves the stack empty.
C7_PreviousRoutePopsTwo ==
    [][PreviousRoute(TRUE) =>
          LET k == Len(breadcrumbs) IN
          /\ k >= 2 =>
                /\ Len(breadcrumbs') = k - 2
                /\ \A i \in 1..(k - 2) : breadcrumbs'[i] = breadcrumbs[i]
                /\ routeNext' = breadcrumbs[k - 1].redirect
                /\ result' = routeNext'
                /\ raised' = FALSE
          /\ k = 0 =>
                /\ breadcrumbs' = <<>>
                /\ routeNext' = ""
                /\ result' = ""
                /\ raised' = FALSE]_vars

\* C7 witness: previousRoute() has returned "/a" and left the stack empty
\* (clear, add "/a", add "/b", previousRoute).
C7_Witness ==
    op = "previousRoute" /\ result = "/a" /\ routeNext = "/a" /\ breadcrumbs = <<>>

\* C8: addBreadcrumb(redirect, displayText) appends exactly one entry
\* {redirect, displayText, or redirect when displayText is absent}, and then
\* routeNext is the added redirect if the stack has at least two entries and
\* empty otherwise; clearBreadcrumbs() empties the stack and routeNext.
C8_AddAndClearBreadcrumbs ==
    [][/\ \A redirect \in Redirects, displayText \in DisplayTexts :
             AddBreadcrumb(redirect, displayText) =>
                LET k == Len(breadcrumbs) IN
                /\ Len(breadcrumbs') = k + 1
                /\ \A i \in 1..k : breadcrumbs'[i] = breadcrumbs[i]
                /\ breadcrumbs'[k + 1].redirect = redirect
                /\ breadcrumbs'[k + 1].displayText =
                      (IF displayText = Null THEN redirect ELSE displayText.v)
                /\ routeNext' = (IF k + 1 >= 2 THEN redirect ELSE "")
       /\ ClearBreadcrumbs => (breadcrumbs' = <<>> /\ routeNext' = "")]_vars

\* C8 witness: addBreadcrumb without a display text has added a first entry,
\* which leaves routeNext empty.
C8_Witness ==
    /\ op = "addBreadcrumb" /\ Len(breadcrumbs) = 1 /\ routeNext = ""
    /\ breadcrumbs[1].displayText = breadcrumbs[1].redirect

-----------------------------------------------------------------------------
(* Claims about the REST services *)

IsPrefix(p, str) == Len(p) <= Len(str) /\ SubSeq(str, 1, Len(p)) = p

\* a call of request(options) has just been made with a string url
RequestedWithUrl == op = "request" /\ TypeOf(options.url) = "string"

\* a call of request(options) has just been made without a string url
RequestedWithoutUrl == op = "request" /\ TypeOf(options.url) # "string"

\* C9 as stated: for all call options whose url field is a string,
\* configure(options).url equals that string exactly, whatever the host and
\* the other option fields (endpoint, resource, query, headers, data) are.
C9_UrlVerbatim ==
    RequestedWithUrl => (raised = FALSE /\ request.url = options.url.v)

\* C9 as amended: for all call options whose url field is a string,
\* configure(options) throws exactly when options.headers is null, and
\* otherwise its url equals that string exactly when options.query is not of
\* type 'object', and is that string followed by '?' and the serialized query
\* when it is (a mapping or null); host, endpoint, resource and data have no
\* effect on it.
C9_UrlVerbatimUnlessQuery ==
    RequestedWithUrl =>
        /\ raised = (options.headers = Null)
        /\ raised = FALSE =>
              IF TypeOf(options.query) = "object"
              THEN /\ IsPrefix(options.url.v \o <<"?">>, request.url)
                   /\ \A i \in (Len(options.url.v) + 2)..Len(request.url) :
                         request.url[i] # "?"
              ELSE request.url = options.url.v

\* C9 witness: request() was called with url "u", an endpoint and a resource
\* under a non-empty host, and the descriptor's url is "u".
C9_Witness ==
    /\ RequestedWithUrl /\ raised = FALSE
    /\ host # <<>>
    /\ options.endpoint # Undefined /\ options.resource # Undefined
    /\ options.data # Undefined /\ options.headers # Undefined
    /\ options.url.v = <<"u">> /\ request.url = <<"u">>

\* the part of the descriptor's url that configure resolves before it appends
\* the query: the whole url when options.query is not an object
ResolvedPart(str) ==
    IF TypeOf(options.query) = "object"
    THEN SubSeq(str, 1, Len(str) - 1
                        - Len(QueryToString(QueryPairs(EntriesOf(options.query)))))
    ELSE str

\* C10: for all call options without a string url, configure resolves the URL
\* as the store's current host followed by options.endpoint when endpoint is a
\* string (endpoint before resource) and by options.resource otherwise; the
\* host is the one setHost/initialize wrote last before the call.
C10_HostEndpointResource ==
    (RequestedWithoutUrl /\ raised = FALSE) =>
        ResolvedPart(request.url) =
            IF TypeOf(options.endpoint) = "string"
            THEN host \o options.endpoint.v
            ELSE host \o ToStr(options.resource)

\* C10 witness: after host "h" was written, request() without url, with both
\* an endpoint and a resource, resolved to host + endpoint.
C10_Witness ==
    /\ RequestedWithoutUrl /\ raised = FALSE
    /\ host = <<"h">>
    /\ TypeOf(options.endpoint) = "string" /\ TypeOf(options.resource) = "string"
    /\ TypeOf(options.query) # "object"
    /\ request.url = <<"h", "/", "x">>

\* the index of the first c in str, 0 when there is none
FirstIndex(str, c) ==
    IF \E i \in 1..Len(str) : str[i] = c
    THEN CHOOSE i \in 1..Len(str) :
            str[i] = c /\ \A j \in 1..(i - 1) : str[j] # c
    ELSE 0

\* the pieces of str between the occurrences of sep
RECURSIVE SplitOn(_, _)
SplitOn(str, sep) ==
    LET i == FirstIndex(str, sep) IN
    IF i = 0 THEN <<str>>
    ELSE <<SubSeq(str, 1, i - 1)>> \o SplitOn(SubSeq(str, i + 1, Len(str)), sep)

\* the name of a serialized name=value entry
EntryName(entry) == SubSeq(entry, 1, FirstIndex(entry, "=") - 1)

NonNull(e) == e.v # Null

\* a call of request(options) with options.query of type 'object' has just
\* returned
RequestedWithQuery ==
    op = "request" /\ raised = FALSE /\ TypeOf(options.query) = "object"

C12_InitializeOnlyRecognized ==
    [][\A o \in StoreInitOptions :
         Initialize(o) =>
           /\ raised' = FALSE
           /\ restExtra' = restExtra
           /\ "host" \notin DOMAIN o => host' = host
           /\ "authorization" \notin DOMAIN o => authorization' = authorization
           /\ "accept" \notin DOMAIN o => accept' = accept
           /\ "contentType" \notin DOMAIN o => contentType' = contentType]_vars

Credentials == {<<"u", ":", "p">>, <<"u", ":">>}

Base64Chars == {Base64Alphabet[i] : i \in 1..64}

Base64Index(c) == (CHOOSE i \in 1..64 : Base64Alphabet[i] = c) - 1

CodeChars == {"u", "p", ":", "n", "l"}

CharOf(code) ==
    IF \E c \in CodeChars : CharCode(c) = code
    THEN CHOOSE c \in CodeChars : CharCode(c) = code
    ELSE "?"

\* the bytes one group of four base64 characters stands for
DecodeGroup(g) ==
    LET n1 == Base64Index(g[1])
        n2 == Base64Index(g[2])
        n3 == IF g[3] = "=" THEN 0 ELSE Base64Index(g[3])
        n4 == IF g[4] = "=" THEN 0 ELSE Base64Index(g[4])
        b1 == n1 * 4 + n2 \div 16
        b2 == (n2 % 16) * 16 + n3 \div 4
        b3 == (n3 % 4) * 64 + n4
    IN  IF g[3] = "=" THEN <<CharOf(b1)>>
        ELSE IF g[4] = "=" THEN <<CharOf(b1), CharOf(b2)>>
        ELSE <<CharOf(b1), CharOf(b2), CharOf(b3)>>

RECURSIVE Atob(_)
Atob(enc) ==
    IF enc = <<>> THEN <<>>
    ELSE DecodeGroup(SubSeq(enc, 1, 4)) \o Atob(SubSeq(enc, 5, Len(enc)))

\* enc is well-formed base64
IsBase64(enc) ==
    /\ Len(enc) % 4 = 0
    /\ \A i \in 1..Len(enc) :
         \/ enc[i] \in Base64Chars
         \/ enc[i] = "=" /\ i > Len(enc) - 2 /\ i > 2
             /\ \A j \in (i + 1)..Len(enc) : enc[j] = "="

\* value is "Basic " followed by the base64 of a credential
ReadyToSend(value) ==
    /\ TypeOf(value) = "string"
    /\ IsPrefix(<<"B", "a", "s", "i", "c", " ">>, value.v)
    /\ LET enc == SubSeq(value.v, 7, Len(value.v))
       IN  IsBase64(enc) /\ Atob(enc) \in Credentials

CallerHeader(name) ==
    IF options.headers.t = "object" /\ name \in DOMAIN options.headers.v
    THEN options.headers.v[name] ELSE Undefined

RequestHeader(name) ==
    IF request.headers.t = "object" /\ name \in DOMAIN request.headers.v
    THEN request.headers.v[name] ELSE Undefined

\* C13: the stored authorization is absent or "Basic " + base64(credential),
\* and a request whose caller names no Authorization header of its own
\* carries the stored value unchanged, or no such header when none is stored.
C13_AuthorizationReadyToSend ==
    /\ authorization = Null \/ ReadyToSend(authorization)
    /\ (op = "request" /\ raised = FALSE /\ CallerHeader("Authorization") = Undefined) =>
         IF authorization = Null
         THEN RequestHeader("Authorization") = Undefined
         ELSE RequestHeader("Authorization") = authorization

\* a request sent with the header taken from a store that setBasicAuth filled
\* with a user name and no password
C13_Witness ==
    /\ op = "request" /\ raised = FALSE
    /\ CallerHeader("Authorization") = Undefined
    /\ authorization = Str(<<"B", "a", "s", "i", "c", " ">> \o Btoa(<<"u", ":">>))
    /\ RequestHeader("Authorization") = authorization

HeaderNames == {"Authorization", "Accept", "Content-Type", "X-Key"}

\* the header configure derives from the store, if any
StoreHeader(name) ==
    CASE name = "Authorization" /\ TypeOf(authorization) = "string" -> authorization
      [] name = "Accept" /\ TypeOf(accept) = "string" -> accept
      [] name = "Content-Type" /\ TypeOf(contentType) = "string" -> contentType
      [] OTHER -> Undefined

\* C18: in the descriptor configure builds, a header the caller names carries
\* the caller's value even when the store supplies one of the same name, and
\* a header the caller does not name carries the store's value, if any.
C18_CallerHeadersOverride ==
    (op = "request" /\ raised = FALSE) =>
        \A name \in HeaderNames :
            RequestHeader(name) = IF CallerHeader(name) # Undefined
                                  THEN CallerHeader(name)
                                  ELSE StoreHeader(name)

\* a request whose caller names Authorization and Accept while the store
\* holds both, and Content-Type comes from the store
C18_Witness ==
    /\ op = "request" /\ raised = FALSE
    /\ CallerHeader("Authorization") # Undefined
    /\ StoreHeader("Authorization") # Undefined
    /\ StoreHeader("Accept") # Undefined
    /\ RequestHeader("Authorization") = CallerHeader("Authorization")
    /\ RequestHeader("Authorization") # StoreHeader("Authorization")
    /\ RequestHeader("Accept") # StoreHeader("Accept")
    /\ RequestHeader("Content-Type") = Str("text/plain")

\* C16: whenever loaderWidth = 0 no step is configured (loaderStep = 0), from
\* the initial state of the singleton onward, so that incrementLoader()
\* before any setLoaderSteps leaves loaderWidth at 0.
C16_IdleHasNoStep ==
    /\ [](loaderWidth = 0 => loaderStep = 0)
    /\ [][(loaderWidth = 0 /\ IncrementLoader) => loaderWidth' = 0]_vars

\* C19: resetLoader() sets loaderWidth = 0, loaderStep = 0 and loaderUnit =
\* "0vw" from any state and leaves the timer handle and the pending timer as
\* they were; a deferred reset pending at that moment still fires later.
C19_ResetLoaderKeepsTimer ==
    /\ [][ResetLoader =>
            /\ loaderWidth' = 0 /\ loaderStep' = 0
            /\ loaderUnit' = <<"0", "v", "w">>
            /\ loaderTimeout' = loaderTimeout /\ timers' = timers]_vars
    /\ (op = "resetLoader" /\ timers # {}) ~> op = "loaderTimeoutCallback"

\* resetLoader() has run while the deferred reset of a full cycle was pending
C19_Witness ==
    /\ op = "resetLoader" /\ loaderWidth = 0 /\ loaderStep = 0
    /\ timers = {loaderTimeout} /\ loaderTimeout # NullHandle

BtnSuccessCreate ==
    <<"b", "t", "n", " ", "s", "u", "c", "c", "e", "s", "s", " ",
      "c", "r", "e", "a", "t", "e">>

\* C14: addAction appends exactly one descriptor to the end of the
\* action-button list, with styles "btn " + the supplied styles ("btn success
\* create" when styles is omitted) and the given displayText, and leaves the
\* earlier entries as they were and in order; clearActions() empties the list.
C14_AddActionAppends ==
    /\ [][\A a \in ActionArgs :
            AddAction(a[1], a[2], a[3], Undefined, Undefined) =>
              LET n == Len(actionButtons) IN
              /\ Len(actionButtons') = n + 1
              /\ SubSeq(actionButtons', 1, n) = actionButtons
              /\ actionButtons'[n + 1].displayText = a[1]
              /\ actionButtons'[n + 1].styles =
                   IF a[3] = Undefined THEN BtnSuccessCreate
                   ELSE <<"b", "t", "n", " ">> \o a[3].v]_vars
    /\ [][ClearActions => actionButtons' = <<>>]_vars

\* a second action added with the default styles after one with styles of
\* the caller's
C14_Witness ==
    /\ op = "addAction" /\ Len(actionButtons) = 2
    /\ actionButtons[1].styles = <<"b", "t", "n", " ", "d", "a", "n", "g", "e", "r">>
    /\ actionButtons[2].styles = BtnSuccessCreate
    /\ actionButtons[2].displayText = Str("New Item")

\* C15: in every reachable state, after any sequence of initialize,
\* setLoaderSteps, incrementLoader, resetLoader and deferred resets,
\* loaderUnit is the string rendering of loaderWidth.
C15_LoaderUnitRendersWidth == loaderUnit = LoaderUnitOf(loaderWidth)

\* C17: a reference obtained from getBreadcrumbs(), getActions() or getState()
\* is, in every later state, the container the frame state refers to: the
\* identity of the containers never changes, whatever operations (initialize
\* included) follow.
C17_ContainersKeepIdentity ==
    /\ held.breadcrumbs \in {"none", breadcrumbsRef}
    /\ held.actionButtons \in {"none", actionButtonsRef}
    /\ held.state \in {"none", "frameState"}

\* C20: previousRoute(false) returns the current routeNext and leaves the
\* whole frame state unchanged (breadcrumb stack, routeNext, loader fields,
\* actions and the rest), whatever the stack holds.
C20_PeekLeavesFrameState ==
    [][PreviousRoute(FALSE) =>
         /\ result' = routeNext /\ raised' = FALSE
         /\ UNCHANGED <<breadcrumbs, routeNext, loaderWidth, loaderStep,
                        loaderUnit, loaderTimeout, actionButtons, frameTitle,
                        sessionTheme, serverHost, frameExtra, breadcrumbsRef,
                        actionButtonsRef>>]_vars

\* a peek on a one-entry stack, with actions added and loader fields set
C20_Witness ==
    /\ op = "previousRoute" /\ raised = FALSE
    /\ Len(breadcrumbs) = 1 /\ result = "" /\ routeNext = ""
    /\ actionButtons # <<>> /\ loaderWidth = 40

\* C23: after setLoaderSteps(n) is accepted in Idle for an integer n >= 1 and
\* until a reset, 1 + n * loaderStep >= 100, and once n incrementLoader()
\* calls have been made loaderWidth is 100.
C23_DeclaredStepsComplete ==
    cycle # "idle" =>
        /\ declared >= 1
        /\ 1 + declared * loaderStep >= 100
        /\ increments >= declared => loaderWidth = 100

\* the seventh incrementLoader() after setLoaderSteps(7) has brought the
\* width from 91 to 100
C23_Witness ==
    /\ op = "incrementLoader" /\ cycle = "full"
    /\ declared = 7 /\ increments = 7 /\ loaderStep = 15 /\ loaderWidth = 100

\* the operation built one descriptor with the method and the endpoint and
\* handed it to the transport, once
SentOnce(method, endpoint) ==
    /\ raised' = FALSE
    /\ request'.method = method
    /\ request'.url = host \o endpoint.v
    /\ Len(inFlight') = Len(inFlight) + 1
    /\ SubSeq(inFlight', 1, Len(inFlight)) = inFlight
    /\ inFlight'[Len(inFlight')].method = method

\* C21: each REST client operation (request, get, post, put, patch, delete)
\* builds one descriptor carrying the verb's method and the given endpoint and
\* hands it to the transport exactly once; a completion, failed or not, hands
\* the transport nothing.
C21_OneTransportCallNoRetry ==
    /\ [][\A opts \in StoreCallOptions :
            Request(opts) => SentOnce(opts.method, opts.endpoint)]_vars
    /\ [][\A endpoint \in Endpoints, payload \in Payloads :
            /\ Get(endpoint) => SentOnce("GET", endpoint)
            /\ Post(endpoint, payload) => SentOnce("POST", endpoint)
            /\ Put(endpoint, payload) => SentOnce("PUT", endpoint)
            /\ Patch(endpoint, payload) => SentOnce("PATCH", endpoint)
            /\ Delete(endpoint) => SentOnce("DELETE", endpoint)]_vars
    /\ [][\A i \in 1..MaxInFlight, outcome \in Outcomes :
            Completes(i, outcome) =>
                /\ inFlight' = Without(inFlight, i)
                /\ request' = Undefined]_vars

\* C22: the completion of a request fetchConsumerList issued advances the
\* loader as it is when the completion runs: loaderWidth grows by the current
\* loaderStep (up to 100), whatever the step was when the request was issued;
\* and any call in flight, not only the oldest, can be the next to complete.
C22_CompletionActsOnCurrentState ==
    /\ [](\A i \in 1..Len(inFlight) : ENABLED Completes(i, "resolved"))
    /\ [][\A i \in 1..MaxInFlight, outcome \in Outcomes :
            (Completes(i, outcome)
             /\ inFlight[i].origin = "fetchConsumerList") =>
                /\ loaderWidth' = Min(loaderWidth + loaderStep, 100)
                /\ loaderStep' = loaderStep
                /\ loaderUnit' = NumStr(loaderWidth') \o <<"v", "w">>]_vars

\* the younger of two requests issued in a cycle of step 50 completes first,
\* after a reset and setLoaderSteps(4): the new cycle goes from 1 to 26
C22_Witness ==
    /\ op = "completion"
    /\ result.index = 2 /\ Len(inFlight) = 1
    /\ result.flight.origin = "fetchConsumerList"
    /\ result.flight.issuedStep = 50
    /\ cycle = "loading" /\ declared = 4
    /\ loaderStep = 25 /\ loaderWidth = 26

====
